---- MODULE Spec2Model ----
(***************************************************************************)
(* Model of the planar shape renderer (src/src/main.rs, geometry.rs,       *)
(* shape.rs, uniforms.rs): the closure passed to event_loop.run, the state *)
(* it captures, and the pure geometry generators.                          *)
(*                                                                         *)
(* Numbers.  An f32 that the program obtains by dividing two window        *)
(* dimensions is kept as its IEEE-754 binary32 value [m, e], meaning       *)
(* m * 2^(e-23) with 2^23 <= m < 2^24 (round to nearest, ties to even).    *)
(* Positions and scales of shapes are kept in tenths (0.5 is 5, 1.0 is 10).*)
(***************************************************************************)
EXTENDS Integers, Sequences, FiniteSets, TLC

VARIABLES
  size,            \* main.rs:140  window.inner_size() captured once at startup
  viewport,        \* the window's current inner size (last notified size)
  surface_config,  \* main.rs:144  wgpu::SurfaceConfiguration (width, height)
  surface,         \* the configuration the surface was last configured with
  uniforms,        \* main.rs:171  Uniforms { aspect_ratio }
  uniform_buffer,  \* main.rs:174  contents of the aspect uniform buffer
  shapes,          \* main.rs:327  Vec<Shape>
  control_flow,    \* winit's ControlFlow as the event loop sees it
  loop_destroyed,  \* the event loop has delivered LoopDestroyed and returned
  calls,           \* the device/queue/surface calls of the handler that ran last
  last,            \* the event the callback handled last
  aspect_checked,  \* the per-frame aspect check ran since the last Resized
  geo              \* the last call of a geometry generator and its result

vars == <<size, viewport, surface_config, surface, uniforms, uniform_buffer,
          shapes, control_flow, loop_destroyed, calls, last, aspect_checked, geo>>

loopVars == <<size, viewport, surface_config, surface, uniforms, uniform_buffer,
              shapes, control_flow, loop_destroyed, calls, last, aspect_checked>>

-----------------------------------------------------------------------------
(* Bounds *)

\* window dimensions are the startup dimensions divided by 1..MaxDiv
MaxDiv == 2

\* the geometry generators are called with segments in 0..MaxSegments
MaxSegments == 8

\* and with a radius of 1..MaxRadius tenths
MaxRadius == 3

-----------------------------------------------------------------------------
(* f32 arithmetic on window dimensions *)

RECURSIVE Pow2(_)
Pow2(n) == IF n = 0 THEN 1 ELSE 2 * Pow2(n - 1)

Abs(x) == IF x < 0 THEN -x ELSE x

\* floor(log2(n / d)) for n >= d > 0
RECURSIVE ExpUp(_, _)
ExpUp(n, d) == IF 2 * d <= n THEN 1 + ExpUp(n, 2 * d) ELSE 0

\* the least k with n * 2^k >= d, for 0 < n < d
RECURSIVE ExpDown(_, _)
ExpDown(n, d) == IF n >= d THEN 0 ELSE 1 + ExpDown(2 * n, d)

\* long division: `bits` more quotient bits of (q + r/d)
RECURSIVE DivBits(_, _, _, _)
DivBits(q, r, d, bits) ==
  IF bits = 0 THEN [q |-> q, r |-> r]
  ELSE IF 2 * r >= d THEN DivBits(2 * q + 1, 2 * r - d, d, bits - 1)
       ELSE DivBits(2 * q, 2 * r, d, bits - 1)

\* `w as f32 / h as f32` for 0 < w, h < 2^24 (both conversions are exact)
F32Div(w, h) ==
  LET e  == IF w >= h THEN ExpUp(w, h) ELSE -ExpDown(w, h)
      n  == IF e >= 0 THEN w ELSE w * Pow2(-e)
      d  == IF e >= 0 THEN h * Pow2(e) ELSE h
      qr == DivBits(1, n - d, d, 23)
      up == \/ 2 * qr.r > d
            \/ 2 * qr.r = d /\ qr.q % 2 = 1
      m  == IF up THEN qr.q + 1 ELSE qr.q
  IN  IF m = Pow2(24) THEN [m |-> Pow2(23), e |-> e + 1] ELSE [m |-> m, e |-> e]

\* (a - b).abs() > f32::EPSILON, with f32::EPSILON = 2^-23, for a, b >= 2^-22.
\* The subtraction is exact wherever the comparison is close (Sterbenz).
F32AbsDiffGtEpsilon(a, b) ==
  LET hi == IF a.e >= b.e THEN a ELSE b
      lo == IF a.e >= b.e THEN b ELSE a
      \* |a - b| = D * 2^(lo.e - 23)
      D  == IF hi.e = lo.e THEN Abs(hi.m - lo.m) ELSE 2 * hi.m - lo.m
  IN  IF hi.e - lo.e >= 2 THEN TRUE
      ELSE IF lo.e >= 1 THEN D >= 1
      ELSE D > Pow2(-lo.e)

AspectOf(sz) == F32Div(sz[1], sz[2])

-----------------------------------------------------------------------------
(* geometry.rs / main.rs:429-451 *)

\* main.rs:203
circle_segments == 64

\* one coordinate of a generated vertex: axis "x" is radius * cos(step * i),
\* "y" is radius * sin(step * i) with step = TAU / segments, "z" is 0.0
Coord(axis, radius, i, segments) ==
  [axis |-> axis, radius |-> radius, i |-> i, segments |-> segments]

\* the loop `for i in 0..segments` pushing x, y, z; i counts the iterations done
RECURSIVE CircleVertexLoop(_, _, _)
CircleVertexLoop(radius, segments, i) ==
  IF i = 0 THEN << >>
  ELSE CircleVertexLoop(radius, segments, i - 1)
         \o << Coord("x", radius, i - 1, segments),
               Coord("y", radius, i - 1, segments),
               Coord("z", 0, i - 1, segments) >>

\* main.rs:429-442 (geometry.rs:1-14).  The function returns Vec<f32>: it has no error path.  With segments = 0 the
\* f32 division TAU / 0.0 yields +inf without a panic and the loop body never
\* runs, so the (empty) vector is returned.
generate_circle_vertices(radius, segments) ==
  [status |-> "Ok", vertices |-> CircleVertexLoop(radius, segments, segments)]

\* the loop `for i in 0..segments as u32 { indices.push(i) }`
RECURSIVE CircleIndexLoop(_)
CircleIndexLoop(i) == IF i = 0 THEN << >> ELSE Append(CircleIndexLoop(i - 1), i - 1)

\* the generator without the closing push of line 449
generate_circle_indices_open(segments) == CircleIndexLoop(segments)

\* main.rs:444-451 (geometry.rs:16-24)
generate_circle_indices(segments) == Append(CircleIndexLoop(segments), 0)

\* main.rs:205, 216
circle_index_data == generate_circle_indices(circle_segments)

circle_index_count == Len(circle_index_data)

-----------------------------------------------------------------------------
(* shape.rs: InstanceData and Shape.  A Mat4 is its four columns. *)

Vec3(x, y, z) == <<x, y, z>>

\* glam::Mat4::from_translation
from_translation(p) ==
  << <<10, 0, 0, 0>>, <<0, 10, 0, 0>>, <<0, 0, 10, 0>>, <<p[1], p[2], p[3], 10>> >>

\* glam::Mat4::from_scale(Vec3::splat(s))
from_scale(s) ==
  << <<s, 0, 0, 0>>, <<0, s, 0, 0>>, <<0, 0, s, 0>>, <<0, 0, 0, 10>> >>

\* product of two numbers held in tenths
FMul(a, b) == (a * b) \div 10

\* glam's Mat4 * Mat4: column c of the product is a applied to column c of b
MatMul(a, b) ==
  [c \in 1..4 |->
    [r \in 1..4 |->
      FMul(a[1][r], b[c][1]) + FMul(a[2][r], b[c][2])
        + FMul(a[3][r], b[c][3]) + FMul(a[4][r], b[c][4])]]

\* the product taken in the other order
ModelMatrixScaleFirst(position, scale) == MatMul(from_scale(scale), from_translation(position))

\* main.rs:41-45 and 74-78 (shape.rs:31-35 and 67-71); to_cols_array_2d keeps
\* the columns
ModelMatrix(position, scale) == MatMul(from_translation(position), from_scale(scale))

\* main.rs:35-66 (shape.rs:24-59); id stands for the buffer and bind group the device hands out
new_circle(id, position, scale) ==
  [shape_type |-> "Circle", position |-> position, scale |-> scale,
   instance_buffer |-> ModelMatrix(position, scale), bind_group |-> id]

\* main.rs:68-99 (shape.rs:61-96)
new_triangle(id, position, scale) ==
  [shape_type |-> "Triangle", position |-> position, scale |-> scale,
   instance_buffer |-> ModelMatrix(position, scale), bind_group |-> id]

\* main.rs:327-331
StartupShapes ==
  << new_circle("shape_bind_group_0", Vec3(-5, 0, 0), 13),
     new_triangle("shape_bind_group_1", Vec3(5, 5, 0), 2),
     new_triangle("shape_bind_group_2", Vec3(2, 2, 0), 4) >>

-----------------------------------------------------------------------------
(* The calls a handler makes on the surface, device, queue and render pass *)

NoVal == [m |-> 0, e |-> 0]

Call(op, res, slot, count, w, h, val) ==
  [op |-> op, res |-> res, slot |-> slot, count |-> count, w |-> w, h |-> h, val |-> val]

Op(op) == Call(op, "", 0, 0, 0, 0, NoVal)

OpOn(op, res) == Call(op, res, 0, 0, 0, 0, NoVal)

GetCurrentTexture(ok) == OpOn("get_current_texture", IF ok THEN "Ok" ELSE "Err")

Configure(cfg) == Call("configure", "surface", 0, 0, cfg[1], cfg[2], NoVal)

WriteBuffer(buf, val) == Call("write_buffer", buf, 0, 0, 0, 0, val)

SetBindGroup(slot, bg) == Call("set_bind_group", bg, slot, 0, 0, 0, NoVal)

DrawIndexed(n) == Call("draw_indexed", "", 0, n, 0, 0, NoVal)

Draw(n) == Call("draw", "", 0, n, 0, 0, NoVal)

\* the per-shape dispatch with the two bind groups at each other's slot
DrawShapeSwapped(shape) ==
  IF shape.shape_type = "Circle"
  THEN << OpOn("set_pipeline", "circle_pipeline"),
          SetBindGroup(1, "uniform_bind_group"),
          SetBindGroup(0, shape.bind_group),
          OpOn("set_vertex_buffer", "circle_vertex_buffer"),
          OpOn("set_index_buffer", "circle_index_buffer"),
          DrawIndexed(circle_index_count) >>
  ELSE << OpOn("set_pipeline", "triangle_pipeline"),
          SetBindGroup(1, "uniform_bind_group"),
          SetBindGroup(0, shape.bind_group),
          OpOn("set_vertex_buffer", "triangle_vertex_buffer"),
          Draw(3) >>

\* main.rs:380-397, one iteration of `for shape in &shapes`
DrawShape(shape) ==
  IF shape.shape_type = "Circle"
  THEN << OpOn("set_pipeline", "circle_pipeline"),
          SetBindGroup(0, "uniform_bind_group"),
          SetBindGroup(1, shape.bind_group),
          OpOn("set_vertex_buffer", "circle_vertex_buffer"),
          OpOn("set_index_buffer", "circle_index_buffer"),
          DrawIndexed(circle_index_count) >>
  ELSE << OpOn("set_pipeline", "triangle_pipeline"),
          SetBindGroup(0, "uniform_bind_group"),
          SetBindGroup(1, shape.bind_group),
          OpOn("set_vertex_buffer", "triangle_vertex_buffer"),
          Draw(3) >>

\* main.rs:379-398
RECURSIVE DrawShapes(_)
DrawShapes(ss) ==
  IF ss = << >> THEN << >> ELSE DrawShape(Head(ss)) \o DrawShapes(Tail(ss))

-----------------------------------------------------------------------------
(* Startup, main.rs:107-331 *)

\* main.rs:110, LogicalSize::new(800, 600)
StartWidth == 800

StartHeight == 600

\* the inner sizes the window system may give the window
Sizes == { <<StartWidth \div i, StartHeight \div j>> : i, j \in 1..MaxDiv }

NoEvent == [event |-> "Init", acquired |-> FALSE, new_size |-> <<0, 0>>]

Handled(event, acquired, new_size) ==
  [event |-> event, acquired |-> acquired, new_size |-> new_size]

NoGeo == [fn |-> "none", radius |-> 0, segments |-> 0, status |-> "none",
          vertices |-> << >>, indices |-> << >>]

Init ==
  /\ size \in Sizes
  /\ viewport = size
  /\ surface_config = size
  /\ surface = size
  /\ uniforms = [aspect_ratio |-> AspectOf(size)]
  /\ uniform_buffer = AspectOf(size)
  /\ shapes = StartupShapes
  /\ control_flow = "Poll"
  /\ loop_destroyed = FALSE
  /\ calls = << >>
  /\ last = NoEvent
  /\ aspect_checked = FALSE
  /\ geo = NoGeo

-----------------------------------------------------------------------------
(* The closure of event_loop.run, main.rs:333-427 *)

\* main.rs:334.  winit keeps ControlFlow::Exit sticky: once it is set the
\* callback is handed a dummy, so this assignment no longer reaches the loop.
ResetToPoll(cf) == IF cf = "Exit" THEN "Exit" ELSE "Poll"

\* main.rs:353-358 with the assignment of line 356 left out
AspectCheckNoStore(u, new_aspect_ratio) ==
  IF F32AbsDiffGtEpsilon(new_aspect_ratio, u.aspect_ratio)
  THEN [uniforms |-> u,
        uploads  |-> << WriteBuffer("uniform_buffer", new_aspect_ratio) >>]
  ELSE [uniforms |-> u, uploads |-> << >>]

\* main.rs:353-358 with the write_buffer of line 357 left out
AspectCheckNoUpload(u, new_aspect_ratio) ==
  IF F32AbsDiffGtEpsilon(new_aspect_ratio, u.aspect_ratio)
  THEN [uniforms |-> [u EXCEPT !.aspect_ratio = new_aspect_ratio], uploads |-> << >>]
  ELSE [uniforms |-> u, uploads |-> << >>]

\* main.rs:353-358, with new_aspect_ratio the value of line 354.  Yields the
\* uniforms after the check and the uploads made.
AspectCheck(u, new_aspect_ratio) ==
  IF F32AbsDiffGtEpsilon(new_aspect_ratio, u.aspect_ratio)
  THEN [uniforms |-> [u EXCEPT !.aspect_ratio = new_aspect_ratio],
        uploads  |-> << WriteBuffer("uniform_buffer", new_aspect_ratio) >>]
  ELSE [uniforms |-> u, uploads |-> << >>]

\* queue.write_buffer is ordered before every later submission, so the
\* buffer's contents as any later draw reads them are those of the last write
AfterUploads(buf, uploads) ==
  IF uploads = << >> THEN buf ELSE uploads[Len(uploads)].val

\* the Err arm ending the loop instead of skipping the frame
RedrawLostExits ==
  /\ ~loop_destroyed
  /\ control_flow' = "Exit"
  /\ surface' = surface_config
  /\ calls' = << GetCurrentTexture(FALSE), Configure(surface_config) >>
  /\ last' = Handled("RedrawRequested", FALSE, <<0, 0>>)
  /\ UNCHANGED <<size, viewport, surface_config, uniforms, uniform_buffer, shapes,
                 loop_destroyed, aspect_checked, geo>>

\* main.rs:338-344, the Err arm
RedrawLost ==
  /\ ~loop_destroyed
  /\ control_flow' = ResetToPoll(control_flow)
  /\ surface' = surface_config
  /\ calls' = << GetCurrentTexture(FALSE), Configure(surface_config) >>
  /\ last' = Handled("RedrawRequested", FALSE, <<0, 0>>)
  /\ UNCHANGED <<size, viewport, surface_config, uniforms, uniform_buffer, shapes,
                 loop_destroyed, aspect_checked, geo>>

\* main.rs:337-403, the Ok arm
RedrawFrame ==
  /\ ~loop_destroyed
  /\ control_flow' = ResetToPoll(control_flow)
  /\ LET chk == AspectCheck(uniforms, AspectOf(size))
     IN  /\ uniforms' = chk.uniforms
         /\ uniform_buffer' = AfterUploads(uniform_buffer, chk.uploads)
         /\ calls' = << GetCurrentTexture(TRUE), Op("create_view"),
                        Op("create_command_encoder") >>
                     \o chk.uploads
                     \o << Op("begin_render_pass") >>
                     \o DrawShapes(shapes)
                     \o << Op("end_render_pass"), Op("submit"), Op("present") >>
  /\ last' = Handled("RedrawRequested", TRUE, <<0, 0>>)
  /\ aspect_checked' = TRUE
  /\ UNCHANGED <<size, viewport, surface_config, surface, shapes, loop_destroyed, geo>>

\* main.rs:337, Event::RedrawRequested: get_current_texture succeeds or fails
RedrawRequested == RedrawFrame \/ RedrawLost

\* main.rs:404-409
CloseRequested ==
  /\ ~loop_destroyed
  /\ control_flow' = "Exit"
  /\ calls' = << >>
  /\ last' = Handled("CloseRequested", FALSE, <<0, 0>>)
  /\ UNCHANGED <<size, viewport, surface_config, surface, uniforms, uniform_buffer,
                 shapes, loop_destroyed, aspect_checked, geo>>

\* the quotient taken the other way round
ResizedAspectInverted(new_size) == F32Div(new_size[2], new_size[1])

\* main.rs:419
ResizedAspect(new_size) == AspectOf(new_size)

\* main.rs:410-421; the window has the size the event notifies
Resized(new_size) ==
  /\ ~loop_destroyed
  /\ control_flow' = ResetToPoll(control_flow)
  /\ viewport' = new_size
  /\ surface_config' = new_size
  /\ surface' = new_size
  /\ uniforms' = [uniforms EXCEPT !.aspect_ratio = ResizedAspect(new_size)]
  /\ uniform_buffer' = ResizedAspect(new_size)
  /\ calls' = << Configure(new_size),
                 WriteBuffer("uniform_buffer", ResizedAspect(new_size)) >>
  /\ last' = Handled("Resized", FALSE, new_size)
  /\ aspect_checked' = FALSE
  /\ UNCHANGED <<size, shapes, loop_destroyed, geo>>

\* main.rs:422-424
MainEventsCleared ==
  /\ ~loop_destroyed
  /\ control_flow' = ResetToPoll(control_flow)
  /\ calls' = << OpOn("request_redraw", "window") >>
  /\ last' = Handled("MainEventsCleared", FALSE, <<0, 0>>)
  /\ UNCHANGED <<size, viewport, surface_config, surface, uniforms, uniform_buffer,
                 shapes, loop_destroyed, aspect_checked, geo>>

\* main.rs:425, `_ => {}`: NewEvents, RedrawEventsCleared, other window events
OtherEvent ==
  /\ ~loop_destroyed
  /\ control_flow' = ResetToPoll(control_flow)
  /\ calls' = << >>
  /\ last' = Handled("Other", FALSE, <<0, 0>>)
  /\ UNCHANGED <<size, viewport, surface_config, surface, uniforms, uniform_buffer,
                 shapes, loop_destroyed, aspect_checked, geo>>

\* main.rs:425 for Event::LoopDestroyed, which winit delivers last, once
\* control_flow is Exit; event_loop.run then ends the process
LoopDestroyed ==
  /\ ~loop_destroyed
  /\ control_flow = "Exit"
  /\ loop_destroyed' = TRUE
  /\ calls' = << >>
  /\ last' = Handled("LoopDestroyed", FALSE, <<0, 0>>)
  /\ UNCHANGED <<size, viewport, surface_config, surface, uniforms, uniform_buffer,
                 shapes, control_flow, aspect_checked, geo>>

\* The events winit hands to the closure.  Setting ControlFlow::Exit does not
\* stop the dispatch at once: the events still pending in the loop iteration
\* (window events, MainEventsCleared, RedrawRequested, RedrawEventsCleared)
\* reach the closure before LoopDestroyed does.
Next ==
  \/ RedrawRequested
  \/ CloseRequested
  \/ \E new_size \in Sizes : Resized(new_size)
  \/ MainEventsCleared
  \/ OtherEvent
  \/ LoopDestroyed

Spec == Init /\ [][Next]_vars

-----------------------------------------------------------------------------
(* The geometry generators called on their own *)

CallCircleIndices(segments) ==
  /\ geo' = [NoGeo EXCEPT !.fn = "generate_circle_indices",
                          !.segments = segments,
                          !.status = "Ok",
                          !.indices = generate_circle_indices(segments)]
  /\ UNCHANGED loopVars

CallCircleVertices(radius, segments) ==
  /\ LET out == generate_circle_vertices(radius, segments)
     IN  geo' = [NoGeo EXCEPT !.fn = "generate_circle_vertices",
                              !.radius = radius,
                              !.segments = segments,
                              !.status = out.status,
                              !.vertices = out.vertices]
  /\ UNCHANGED loopVars

NextGeometry ==
  \/ \E segments \in 0..MaxSegments : CallCircleIndices(segments)
  \/ \E radius \in 1..MaxRadius, segments \in 0..MaxSegments :
       CallCircleVertices(radius, segments)

SpecGeometry == Init /\ [][NextGeometry]_vars

-----------------------------------------------------------------------------
(* Reading the calls of a handler *)

IsDraw(c) == c.op \in {"draw", "draw_indexed"}

IsUniformUpload(c) == c.op = "write_buffer" /\ c.res = "uniform_buffer"

Positions(log, Test(_)) == { i \in 1..Len(log) : Test(log[i]) }

NumCalls(log, op) == Cardinality({ i \in 1..Len(log) : log[i].op = op })

NumUploads(log) == Cardinality(Positions(log, IsUniformUpload))

\* the draw calls of a log, in order
DrawCalls(log) == SelectSeq(log, IsDraw)

\* the position in log of its k-th draw call
DrawPos(log, k) ==
  CHOOSE i \in Positions(log, IsDraw) :
    Cardinality({ j \in Positions(log, IsDraw) : j <= i }) = k

\* the bind group bound at `slot` when the call at position i is issued, among
\* the calls made since the draw call before it ("" if none was bound)
BoundAt(log, i, slot) ==
  LET prev  == { j \in Positions(log, IsDraw) : j < i }
      from  == IF prev = {} THEN 0 ELSE CHOOSE j \in prev : \A x \in prev : x <= j
      binds == { j \in (from + 1)..(i - 1) :
                   log[j].op = "set_bind_group" /\ log[j].slot = slot }
  IN  IF binds = {} THEN ""
      ELSE log[CHOOSE j \in binds : \A x \in binds : x <= j].res

FrameDone == last.event = "RedrawRequested" /\ last.acquired

FrameLost == last.event = "RedrawRequested" /\ ~last.acquired

-----------------------------------------------------------------------------
(* Claims *)

\* C1: at the end of every frame that completes, the stored aspect_ratio is
\* width / height of the current viewport (the most recently notified size).
C1_AspectFollowsViewport ==
  FrameDone => uniforms.aspect_ratio = AspectOf(viewport)

\* C2: a RedrawRequested tick whose surface acquisition fails reconfigures the
\* surface with the stored surface configuration, issues no draw, submit or
\* present, leaves the loop running, and every RedrawRequested tick (so also
\* the next one) starts by attempting the acquisition.
C2_LostSurfaceSkipsFrame ==
  [][ /\ (last'.event = "RedrawRequested" /\ ~last'.acquired) =>
           /\ calls' = << GetCurrentTexture(FALSE), Configure(surface_config) >>
           /\ surface' = surface_config
           /\ surface_config' = surface_config
           /\ Positions(calls', IsDraw) = {}
           /\ NumCalls(calls', "submit") = 0
           /\ NumCalls(calls', "present") = 0
           /\ control_flow' = control_flow
           /\ loop_destroyed' = FALSE
      /\ last'.event = "RedrawRequested" =>
           /\ calls' # << >>
           /\ calls'[1].op = "get_current_texture"
    ]_vars

C2_Witness ==
  /\ FrameLost
  /\ surface_config # size
  /\ calls = << GetCurrentTexture(FALSE), Configure(surface_config) >>

\* C3: a frame whose acquisition succeeds issues one draw call per shape in
\* insertion order, draw_indexed over circle_segments + 1 = 65 indices for a
\* Circle and draw over 3 vertices for a Triangle, each with the aspect bind
\* group bound at slot 0 and the shape's own bind group at slot 1; the startup
\* scene gives draw_indexed(65), draw(3), draw(3), one submit, one present.
C3_OneDrawPerShape ==
  FrameDone =>
    /\ Len(DrawCalls(calls)) = Len(shapes)
    /\ \A k \in 1..Len(shapes) :
         LET i == DrawPos(calls, k)
         IN  /\ shapes[k].shape_type = "Circle" =>
                  calls[i] = DrawIndexed(circle_segments + 1)
             /\ shapes[k].shape_type = "Triangle" => calls[i] = Draw(3)
             /\ BoundAt(calls, i, 0) = "uniform_bind_group"
             /\ BoundAt(calls, i, 1) = shapes[k].bind_group
    /\ DrawCalls(calls) = << DrawIndexed(65), Draw(3), Draw(3) >>
    /\ NumCalls(calls, "submit") = 1
    /\ NumCalls(calls, "present") = 1
    /\ calls[Len(calls) - 1].op = "submit"
    /\ calls[Len(calls)].op = "present"
    /\ \A i \in Positions(calls, IsDraw) : i < Len(calls) - 1

C3_Witness ==
  /\ FrameDone
  /\ Len(DrawCalls(calls)) = 3
  /\ <<shapes[1].shape_type, shapes[2].shape_type, shapes[3].shape_type>>
       = <<"Circle", "Triangle", "Triangle">>

\* C4: when the Resized(w, h) handler returns, the surface configuration is
\* w x h, the surface is configured with it, aspect_ratio is the f32 quotient
\* w / h and that value has been uploaded (400 x 300 gives 1.3333334).
C4_ResizedUpdatesAll ==
  last.event = "Resized" =>
    /\ surface_config = last.new_size
    /\ surface = last.new_size
    /\ uniforms.aspect_ratio = F32Div(last.new_size[1], last.new_size[2])
    /\ uniform_buffer = F32Div(last.new_size[1], last.new_size[2])
    /\ calls = << Configure(last.new_size),
                  WriteBuffer("uniform_buffer",
                              F32Div(last.new_size[1], last.new_size[2])) >>
    /\ last.new_size = <<400, 300>> =>
         uniforms.aspect_ratio = [m |-> 11184811, e |-> 0]

C4_Witness ==
  /\ size = <<800, 600>>
  /\ last.event = "Resized"
  /\ last.new_size = <<400, 300>>
  /\ surface = <<400, 300>>

\* C5: once CloseRequested has been handled, a RedrawRequested delivered
\* afterwards acquires no surface and draws, submits and presents nothing.
C5_NoFrameAfterClose ==
  (control_flow = "Exit" /\ last.event = "RedrawRequested") =>
    /\ NumCalls(calls, "get_current_texture") = 0
    /\ Positions(calls, IsDraw) = {}
    /\ NumCalls(calls, "submit") = 0
    /\ NumCalls(calls, "present") = 0

\* C6: the per-frame aspect check uploads the uniform at most once per frame,
\* and not at all in a frame that follows another frame with no Resized event
\* between them.
C6_AspectCheckIdempotent ==
  [][ (last'.event = "RedrawRequested" /\ last'.acquired) =>
        /\ NumUploads(calls') <= 1
        /\ aspect_checked => NumUploads(calls') = 0
    ]_vars

C6_Witness ==
  /\ FrameDone
  /\ aspect_checked
  /\ NumUploads(calls) = 0
  /\ AspectOf(viewport) # AspectOf(size)

C8_ZeroSegmentsRejected ==
  (geo.fn = "generate_circle_vertices" /\ geo.segments = 0) =>
    geo.status = "DomainError"

\* C9: after every handler the aspect uniform buffer holds the stored
\* aspect_ratio; a handler that assigns aspect_ratio uploads that value, and
\* in a frame the upload comes before every draw call.
C9_BufferInSync ==
  /\ uniform_buffer = uniforms.aspect_ratio
  /\ [][ /\ uniform_buffer' = uniforms'.aspect_ratio
         /\ uniforms' # uniforms =>
              \E i \in Positions(calls', IsUniformUpload) :
                calls'[i].val = uniforms'.aspect_ratio
         /\ \A i \in Positions(calls', IsUniformUpload) :
              /\ calls'[i].val = uniforms'.aspect_ratio
              /\ \A j \in Positions(calls', IsDraw) : i < j
       ]_vars

C9_Witness ==
  /\ FrameDone
  /\ NumUploads(calls) = 1
  /\ uniform_buffer = AspectOf(size)
  /\ AspectOf(size) # AspectOf(viewport)

\* C10: no handler changes the shape list or any shape's kind, position, scale
\* or instance buffer, no handler writes an instance buffer, and each instance
\* buffer holds Translation(position) * Scale(scale) of its shape.
C10_ShapesImmutable ==
  /\ [](\A k \in 1..Len(shapes) :
          LET sh == shapes[k]
          IN  sh.instance_buffer =
                << <<sh.scale, 0, 0, 0>>,
                   <<0, sh.scale, 0, 0>>,
                   <<0, 0, sh.scale, 0>>,
                   <<sh.position[1], sh.position[2], sh.position[3], 10>> >>)
  /\ [][ /\ shapes' = shapes
         /\ \A i \in 1..Len(calls') :
              calls'[i].op = "write_buffer" => calls'[i].res = "uniform_buffer"
       ]_vars

C10_Witness ==
  /\ loop_destroyed
  /\ surface_config # size
  /\ aspect_checked
  /\ Len(shapes) = 3
  /\ shapes[1].shape_type = "Circle"
  /\ shapes[1].instance_buffer[4] = <<-5, 0, 0, 10>>

====
